---- MODULE Spec2Model ----
(***************************************************************************)
(* Model of the documentation server of src/src/index.ts: two tool          *)
(* handlers (getOverviewDocFor, getDetailedDocFor) that build a path with   *)
(* path.join, check it with fs.access, read it with fs.readFile and, on     *)
(* failure, list a directory with fs.readdir.                               *)
(*                                                                          *)
(* A JavaScript string is a sequence of tokens: the characters "/", ".",    *)
(* " ", "%", digits and quotes one by one, and unbroken runs of letters     *)
(* ("docs", "overview") as one token each, so that splitting on "/",        *)
(* resolving ".." and appending ".md" are computed, not assumed.  The fixed *)
(* fragments of the messages are single tokens too.  A file's contents are  *)
(* a sequence of bytes (numbers).                                           *)
(***************************************************************************)
EXTENDS Naturals, Sequences, FiniteSets, Bags, TLC

(***************************************************************************)
(* Bounds of the model.                                                     *)
(***************************************************************************)
MaxInFlight == 2
MaxFsChanges == 1

(***************************************************************************)
(* Strings.                                                                 *)
(***************************************************************************)
Last(s) == s[Len(s)]
Front(s) == SubSeq(s, 1, Len(s) - 1)

\* Array.prototype.join / the separator-joining loop of path.join
RECURSIVE JoinWith(_, _)
JoinWith(ss, sep) ==
    IF ss = <<>> THEN <<>>
    ELSE IF Len(ss) = 1 THEN ss[1]
    ELSE ss[1] \o sep \o JoinWith(Tail(ss), sep)

\* String.prototype.includes on texts
Contains(text, sub) ==
    \E i \in 0..(Len(text) - Len(sub)) : SubSeq(text, i + 1, i + Len(sub)) = sub

\* Array.prototype.includes
Includes(arr, x) == \E i \in 1..Len(arr) : arr[i] = x

\* the components of a path string, cut at every "/" (empty ones included)
RECURSIVE SplitFrom(_, _, _)
SplitFrom(s, i, cur) ==
    IF i > Len(s) THEN <<cur>>
    ELSE IF s[i] = "/" THEN <<cur>> \o SplitFrom(s, i + 1, <<>>)
    ELSE SplitFrom(s, i + 1, Append(cur, s[i]))

Split(s) == SplitFrom(s, 1, <<>>)

DotDot == <<".", ".">>
Dot == <<".">>
Slash == <<"/">>

(***************************************************************************)
(* Node's path module (posix).                                              *)
(***************************************************************************)
\* normalizeString: drops "" and ".", resolves "..", never going above the
\* root of an absolute path
RECURSIVE NormalizeComponents(_, _, _)
NormalizeComponents(comps, res, allowAboveRoot) ==
    IF comps = <<>> THEN res
    ELSE LET c == Head(comps)
             rest == Tail(comps)
         IN IF c = <<>> \/ c = Dot
              THEN NormalizeComponents(rest, res, allowAboveRoot)
            ELSE IF c = DotDot
              THEN IF res # <<>> /\ Last(res) # DotDot
                     THEN NormalizeComponents(rest, Front(res), allowAboveRoot)
                   ELSE IF allowAboveRoot
                     THEN NormalizeComponents(rest, Append(res, c), allowAboveRoot)
                   ELSE NormalizeComponents(rest, res, allowAboveRoot)
            ELSE NormalizeComponents(rest, Append(res, c), allowAboveRoot)

IsAbsolute(p) == p # <<>> /\ p[1] = "/"

\* path.normalize
Normalize(p) ==
    IF p = <<>> THEN Dot
    ELSE LET abs == IsAbsolute(p)
             trailing == Last(p) = "/"
             body == JoinWith(NormalizeComponents(Split(p), <<>>, ~abs), Slash)
         IN IF body = <<>>
              THEN IF abs THEN Slash ELSE IF trailing THEN <<".", "/">> ELSE Dot
            ELSE (IF abs THEN Slash ELSE <<>>) \o body \o (IF trailing THEN Slash ELSE <<>>)

\* path.join: the non-empty arguments joined by "/", then normalized
PathJoin(args) ==
    LET nonEmpty == SelectSeq(args, LAMBDA a : a # <<>>)
    IN IF nonEmpty = <<>> THEN Dot ELSE Normalize(JoinWith(nonEmpty, Slash))

\* path.dirname
Dirname(p) ==
    LET comps == Split(p)
    IN IF p = <<>> THEN Dot
       ELSE IF Len(comps) = 1 THEN Dot
       ELSE IF Len(comps) = 2 /\ comps[1] = <<>> THEN Slash
       ELSE JoinWith(Front(comps), Slash)

\* path.resolve(from, to)
PathResolve(from, to) ==
    LET joined == IF IsAbsolute(to) THEN to ELSE from \o Slash \o to
        body == JoinWith(NormalizeComponents(Split(joined), <<>>, FALSE), Slash)
    IN Slash \o body

(***************************************************************************)
(* Text decoding and the other conversions the handlers apply.              *)
(***************************************************************************)
IsContinuation(b) == b >= 128 /\ b <= 191

\* the character of a code point, for the code points the model's files hold
CodePointChar(cp) ==
    CASE cp = 72 -> "H"
      [] cp = 105 -> "i"
      [] cp = 233 -> "U+00E9"
      [] OTHER -> "U+FFFD"

\* Buffer.toString("utf-8") as fs.readFile(path, "utf-8") applies it: one- and
\* two-byte forms are decoded, every byte that starts no well-formed sequence
\* becomes U+FFFD; nothing throws.  (The model's files hold no lead byte of a
\* three- or four-byte form.)
RECURSIVE Utf8Decode(_)
Utf8Decode(bytes) ==
    IF bytes = <<>> THEN <<>>
    ELSE LET b == Head(bytes)
         IN IF b < 128
              THEN <<CodePointChar(b)>> \o Utf8Decode(Tail(bytes))
            ELSE IF b >= 194 /\ b <= 223 /\ Len(bytes) >= 2 /\ IsContinuation(bytes[2])
              THEN <<CodePointChar((b - 192) * 64 + (bytes[2] - 128))>>
                   \o Utf8Decode(Tail(Tail(bytes)))
            ELSE <<"U+FFFD">> \o Utf8Decode(Tail(bytes))

HexDigit(c) ==
    CASE c = "0" -> 0 [] c = "1" -> 1 [] c = "2" -> 2 [] c = "3" -> 3
      [] c = "4" -> 4 [] c = "5" -> 5 [] c = "6" -> 6 [] c = "7" -> 7
      [] c = "8" -> 8 [] c = "9" -> 9 [] OTHER -> 15

\* decodeURIComponent, for the escapes of printable ASCII the module URL holds
RECURSIVE DecodeURIComponent(_)
DecodeURIComponent(s) ==
    IF s = <<>> THEN <<>>
    ELSE IF s[1] = "%" /\ Len(s) >= 3
      THEN LET code == 16 * HexDigit(s[2]) + HexDigit(s[3])
           IN <<IF code = 32 THEN " " ELSE "%">>
              \o DecodeURIComponent(SubSeq(s, 4, Len(s)))
    ELSE <<s[1]>> \o DecodeURIComponent(Tail(s))

\* JSON.stringify of an array of names (names without quotes or backslashes)
JsonStringify(files) ==
    <<"[">> \o JoinWith([i \in 1..Len(files) |-> <<"\"">> \o files[i] \o <<"\"">>], <<",">>)
    \o <<"]">>

(***************************************************************************)
(* The file system.  A node is absent, a file (bytes, readable or not) or   *)
(* a directory (listable or not).  Paths are normalized path strings.       *)
(***************************************************************************)
None == [kind |-> "none", readable |-> FALSE, bytes |-> <<>>]
Dir(r) == [kind |-> "dir", readable |-> r, bytes |-> <<>>]
File(r, b) == [kind |-> "file", readable |-> r, bytes |-> b]

\* import.meta.url's pathname: the module is /opt/doc srv/src/index.js
ModulePathname ==
    <<"/", "opt", "/", "doc", "%", "2", "0", "srv", "/", "src", "/", "index", ".", "js">>

S_docs == <<"docs">>
S_mcp == <<"mcp">>
S_zz == <<"zz">>
S_tool == <<"tool">>
S_overview == <<"overview">>
S_md == <<".", "md">>
S_overview_md == S_overview \o S_md
S_up2 == <<".", ".", "/", ".", ".">>
S_sibling == <<".", ".", "/", "mcp", "/", "tool">>
S_viaMissing == <<"zz", "/", ".", ".", "/", "mcp">>
S_up3overview == <<".", ".", "/", ".", ".", "/", ".", ".", "/", "overview">>

P_opt == <<"/", "opt">>
P_root == P_opt \o <<"/", "doc", " ", "srv">>
P_docs == P_root \o Slash \o S_docs
P_mcp == P_docs \o Slash \o S_mcp
P_mcpOverview == P_mcp \o Slash \o S_overview_md
P_mcpTool == P_mcp \o Slash \o S_tool \o S_md
P_outside == P_opt \o Slash \o S_overview_md

\* the nodes the model varies, in directory order, and the fixed ones
FsSlots == <<P_mcp, P_mcpOverview, P_mcpTool>>
FsFixed == <<Slash, P_opt, P_root, P_docs, P_outside>>
FsPaths == FsFixed \o FsSlots

B_Hi == <<72, 105>>
B_He == <<72, 195, 169>>
B_bad == <<72, 255, 195>>

FixedNode(p) == IF p = P_outside THEN File(TRUE, B_Hi) ELSE Dir(TRUE)

SlotNodes(p) ==
    IF p = P_mcp THEN {None, Dir(TRUE), Dir(FALSE), File(TRUE, B_Hi)}
    ELSE IF p = P_mcpOverview
      THEN {None, File(TRUE, B_He), File(TRUE, B_bad), File(FALSE, B_He)}
    ELSE {None, File(TRUE, B_Hi)}

Range(s) == {s[i] : i \in 1..Len(s)}
FixedPaths == Range(FsFixed)
SlotPaths == Range(FsSlots)

NodeAt(f, p) ==
    IF p \in FixedPaths THEN FixedNode(p)
    ELSE IF p \in DOMAIN f THEN f[p]
    ELSE None

\* a tree: a node exists only inside a directory
WellFormedFs(f) ==
    \A p \in DOMAIN f : f[p].kind # "none" => NodeAt(f, Dirname(p)).kind = "dir"

FsStates ==
    {f \in [SlotPaths -> UNION {SlotNodes(p) : p \in SlotPaths}] :
        /\ \A p \in SlotPaths : f[p] \in SlotNodes(p)
        /\ WellFormedFs(f)}

\* path resolution as the kernel does it, one component at a time from the
\* root: err is "" when the path names a node, else the errno; at is where
\* the walk ended
RECURSIVE Walk(_, _, _)
Walk(f, comps, cur) ==
    IF comps = <<>>
      THEN [err |-> IF NodeAt(f, cur).kind = "none" THEN "ENOENT" ELSE "", at |-> cur]
    ELSE IF NodeAt(f, cur).kind = "none" THEN [err |-> "ENOENT", at |-> cur]
    ELSE IF NodeAt(f, cur).kind = "file" THEN [err |-> "ENOTDIR", at |-> cur]
    ELSE LET c == Head(comps)
         IN IF c = <<>> \/ c = Dot THEN Walk(f, Tail(comps), cur)
            ELSE IF c = DotDot THEN Walk(f, Tail(comps), Dirname(cur))
            ELSE Walk(f, Tail(comps), IF cur = Slash THEN cur \o c ELSE cur \o Slash \o c)

Resolve(f, p) == Walk(f, Split(p), Slash)

ErrnoText(code) ==
    CASE code = "ENOENT" -> "ENOENT: no such file or directory, "
      [] code = "ENOTDIR" -> "ENOTDIR: not a directory, "
      [] code = "EACCES" -> "EACCES: permission denied, "
      [] code = "EISDIR" -> "EISDIR: illegal operation on a directory, "

\* error.message of a failed fs call
ErrorMessage(code, syscall, p) ==
    IF code = "EISDIR" THEN <<ErrnoText(code) \o syscall>>
    ELSE <<ErrnoText(code) \o syscall \o " '">> \o p \o <<"'">>

Ok(v) == [ok |-> TRUE, value |-> v, message |-> <<>>]
Fail(m) == [ok |-> FALSE, value |-> <<>>, message |-> m]

\* fs.access(path, F_OK)
FsAccess(f, p) ==
    LET w == Resolve(f, p)
    IN IF w.err = "" THEN Ok(<<>>) ELSE Fail(ErrorMessage(w.err, "access", p))

\* fs.readFile(path, "utf-8")
FsReadFile(f, p) ==
    LET w == Resolve(f, p)
        n == NodeAt(f, w.at)
    IN IF w.err # "" THEN Fail(ErrorMessage(w.err, "open", p))
       ELSE IF n.kind = "dir" THEN Fail(ErrorMessage("EISDIR", "read", p))
       ELSE IF ~n.readable THEN Fail(ErrorMessage("EACCES", "open", p))
       ELSE Ok(Utf8Decode(n.bytes))

Basename(p) == Last(Split(p))

AllPaths == Range(FsPaths)

\* the entries of directory d, in directory order
Entries(f, d) ==
    LET kids == SelectSeq(FsPaths, LAMBDA q : q # Slash /\ Dirname(q) = d
                                              /\ NodeAt(f, q).kind # "none")
    IN [i \in 1..Len(kids) |-> Basename(kids[i])]

\* fs.readdir(path)
FsReaddir(f, p) ==
    LET w == Resolve(f, p)
        n == NodeAt(f, w.at)
    IN IF w.err # "" THEN Fail(ErrorMessage(w.err, "scandir", p))
       ELSE IF n.kind = "file" THEN Fail(ErrorMessage("ENOTDIR", "scandir", p))
       ELSE IF ~n.readable THEN Fail(ErrorMessage("EACCES", "scandir", p))
       ELSE Ok(Entries(f, w.at))

\* the file system, the process's working directory, how often the file
\* system was changed from outside, the bag of handler invocations in flight,
\* where the process is in its life (main() awaiting the connection, main()
\* rejected, serving, transport closed, exited) and its exit status
VARIABLES fs, cwd, fsChanges, req, phase, exitCode

vars == <<fs, cwd, fsChanges, req, phase, exitCode>>

(***************************************************************************)
(* Requests.  A tool argument is a JSON value: a string or something else.  *)
(***************************************************************************)
Str(s) == [type |-> "string", str |-> s]
NotAString == [type |-> "number", str |-> <<>>]

\* z.string(): any string passes, the empty one included
ZString(v) == v.type = "string"

OverviewSchema(args) == ZString(args.name)
DetailSchema(args) == ZString(args.project) /\ ZString(args.document)

NameInputs == {Str(S_mcp), Str(S_viaMissing), Str(S_up2), Str(<<>>), NotAString}
ProjectInputs == {Str(S_mcp), Str(S_zz), NotAString}
DocumentInputs == {Str(S_tool), Str(S_overview), Str(S_sibling), Str(S_up3overview)}

\* the project root both handlers derive from import.meta.url
ProjectRoot == PathResolve(Dirname(DecodeURIComponent(ModulePathname)), DotDot)

\* a faulty variant: the root taken from the working directory, as the catch block does
OverviewDocPathCwd(name) == PathJoin(<<cwd, S_docs, name, S_overview_md>>)

\* a faulty variant: the extension forgotten
DetailDocPathNoExt(project, document) == PathJoin(<<ProjectRoot, S_docs, project, document>>)

\* a faulty variant: the project directory taken from the working directory
DetailProjectDirCwd(project) == PathJoin(<<cwd, S_docs, project>>)

OverviewDocPath(name) == PathJoin(<<ProjectRoot, S_docs, name, S_overview_md>>)
DetailDocPath(project, document) ==
    PathJoin(<<ProjectRoot, S_docs, project, document \o S_md>>)
DetailProjectDir(project) == PathJoin(<<ProjectRoot, S_docs, project>>)

CwdInputs == {P_root, Slash}
NoResponse == [isError |-> FALSE, text |-> <<>>]

\* a handler invocation: its arguments, where it is suspended, what its catch
\* block caught, what it wrote to stderr while listing, and its result.
\* stable and present are observations: no file-system change since the call;
\* the names that were in the listed directory when readdir ran.
NewRequest(tool) ==
    [tool |-> tool, name |-> <<>>, project |-> <<>>, document |-> <<>>,
     pc |-> "access", errorMessage |-> <<>>, stderr |-> <<>>,
     response |-> NoResponse, stable |-> TRUE, present |-> {}]

Init ==
    /\ fs \in FsStates
    /\ cwd \in CwdInputs
    /\ fsChanges = 0
    /\ req = EmptyBag
    /\ phase = "connecting"
    /\ exitCode = 0

Requests == BagToSet(req)
Enter(r) == req' = req (+) SetToBag({r})
Step(r, next) == req' = (req (-) SetToBag({r})) (+) SetToBag({next})

Line(token, s) == <<<<token>> \o s>>

\* the names in directory d, whatever their order
NamesIn(f, d) ==
    {Basename(q) : q \in {x \in AllPaths : x # Slash /\ Dirname(x) = d
                                                /\ NodeAt(f, x).kind # "none"}}

(***************************************************************************)
(* getOverviewDocFor                                                        *)
(***************************************************************************)
OverviewSuccess(content) == [isError |-> FALSE, text |-> content]

\* a faulty variant: the requested name left out of the message
OverviewErrorTextNoName(name, errorMessage) ==
    <<"Error: Could not find overview document. ">> \o errorMessage

OverviewErrorText(name, errorMessage) ==
    <<"Error: Could not find overview document for \"">> \o name \o <<"\". ">>
    \o errorMessage

\* a faulty variant: what was logged about the directories is appended to the text
OverviewErrorWithListing(r) ==
    [isError |-> TRUE,
     text |-> OverviewErrorText(r.name, r.errorMessage) \o JoinWith(r.stderr, <<" ">>)]

OverviewError(r) == [isError |-> TRUE, text |-> OverviewErrorText(r.name, r.errorMessage)]

\* the SDK validates the arguments against the schema and, if they pass, runs
\* the handler, which suspends at fs.access
CallOverview(arg) ==
    /\ phase = "running"
    /\ BagCardinality(req) < MaxInFlight
    /\ Enter(IF OverviewSchema([name |-> arg])
               THEN [NewRequest("getOverviewDocFor") EXCEPT !.name = arg.str]
             ELSE [NewRequest("getOverviewDocFor") EXCEPT !.pc = "rejected"])
    /\ UNCHANGED <<fs, cwd, fsChanges, phase, exitCode>>

\* a faulty variant: the message also carries a count kept across invocations
OverviewCatchCounting(r, message) ==
    [r EXCEPT !.errorMessage = message \o <<" #", ToString(BagCardinality(req))>>,
              !.pc = "listDocs"]

\* the catch block up to its first await
OverviewCatch(r, message) == [r EXCEPT !.errorMessage = message, !.pc = "listDocs"]

OverviewAccess(r) ==
    /\ r.tool = "getOverviewDocFor" /\ r.pc = "access"
    /\ LET res == FsAccess(fs, OverviewDocPath(r.name))
       IN Step(r, IF res.ok THEN [r EXCEPT !.pc = "read"]
                  ELSE OverviewCatch(r, res.message))
    /\ UNCHANGED <<fs, cwd, fsChanges, phase, exitCode>>

OverviewRead(r) ==
    /\ r.tool = "getOverviewDocFor" /\ r.pc = "read"
    /\ LET res == FsReadFile(fs, OverviewDocPath(r.name))
       IN Step(r, IF res.ok
                    THEN [r EXCEPT !.pc = "done", !.response = OverviewSuccess(res.value)]
                  ELSE OverviewCatch(r, res.message))
    /\ UNCHANGED <<fs, cwd, fsChanges, phase, exitCode>>

\* a faulty variant: the listing's failure leaves the handler as a rejection
OverviewListErrorEscapes(r, message) == [r EXCEPT !.pc = "thrown"]

OverviewListError(r, message) ==
    [r EXCEPT !.pc = "done", !.response = OverviewError(r),
              !.stderr = @ \o Line("Error listing directory: ", message)]

\* readdir of <cwd>/docs
OverviewListDocs(r) ==
    /\ r.tool = "getOverviewDocFor" /\ r.pc = "listDocs"
    /\ LET docsDir == PathJoin(<<cwd, S_docs>>)
           res == FsReaddir(fs, docsDir)
           logged == [r EXCEPT !.stderr =
                         @ \o Line("Files in docs directory: ", JsonStringify(res.value))]
       IN Step(r, IF ~res.ok THEN OverviewListError(r, res.message)
                  ELSE IF Includes(res.value, r.name) THEN [logged EXCEPT !.pc = "listSub"]
                  ELSE [logged EXCEPT !.pc = "done", !.response = OverviewError(r)])
    /\ UNCHANGED <<fs, cwd, fsChanges, phase, exitCode>>

\* readdir of <cwd>/docs/<name>
OverviewListSub(r) ==
    /\ r.tool = "getOverviewDocFor" /\ r.pc = "listSub"
    /\ LET subDir == PathJoin(<<PathJoin(<<cwd, S_docs>>), r.name>>)
           res == FsReaddir(fs, subDir)
       IN Step(r, IF ~res.ok THEN OverviewListError(r, res.message)
                  ELSE [r EXCEPT !.pc = "done", !.response = OverviewError(r),
                           !.stderr = @ \o <<<<"Files in docs/">> \o r.name
                                        \o <<" directory: ">> \o JsonStringify(res.value)>>])
    /\ UNCHANGED <<fs, cwd, fsChanges, phase, exitCode>>

(***************************************************************************)
(* getDetailedDocFor                                                        *)
(***************************************************************************)
DetailSuccess(content) == [isError |-> FALSE, text |-> content]

DetailListErrorText(project, document, files, errorMessage) ==
    <<"Error: Could not find document \"">> \o document
    \o <<".md\" for project \"">> \o project
    \o <<"\". \nAvailable documents: ">> \o JoinWith(files, <<",", " ">>)
    \o <<". ">> \o errorMessage

DetailNoProjectErrorText(project, document, errorMessage) ==
    <<"Error: Could not find project \"">> \o project
    \o <<"\" or document \"">> \o document \o <<".md\". ">> \o errorMessage

DetailListError(r, files) ==
    [isError |-> TRUE,
     text |-> DetailListErrorText(r.project, r.document, files, r.errorMessage)]

DetailNoProjectError(r) ==
    [isError |-> TRUE,
     text |-> DetailNoProjectErrorText(r.project, r.document, r.errorMessage)]

CallDetail(argProject, argDocument) ==
    /\ phase = "running"
    /\ BagCardinality(req) < MaxInFlight
    /\ Enter(IF DetailSchema([project |-> argProject, document |-> argDocument])
               THEN [NewRequest("getDetailedDocFor") EXCEPT
                        !.project = argProject.str, !.document = argDocument.str]
             ELSE [NewRequest("getDetailedDocFor") EXCEPT !.pc = "rejected"])
    /\ UNCHANGED <<fs, cwd, fsChanges, phase, exitCode>>

\* a faulty variant: the caught message is kept in one place for all
\* invocations, so an invocation reports what another one caught
DetailCatchShared(r, message) ==
    LET others == {o \in Requests : o # r /\ o.errorMessage # <<>>}
    IN [r EXCEPT !.errorMessage = IF others = {} THEN message
                                  ELSE (CHOOSE o \in others : TRUE).errorMessage,
                 !.pc = "accessDir"]

\* the catch block up to its first await
DetailCatch(r, message) == [r EXCEPT !.errorMessage = message, !.pc = "accessDir"]

\* a faulty variant: the read is attempted whatever the check found
DetailAccessUnchecked(r) ==
    /\ r.tool = "getDetailedDocFor" /\ r.pc = "access"
    /\ Step(r, [r EXCEPT !.pc = "read"])
    /\ UNCHANGED <<fs, cwd, fsChanges, phase, exitCode>>

DetailAccess(r) ==
    /\ r.tool = "getDetailedDocFor" /\ r.pc = "access"
    /\ LET res == FsAccess(fs, DetailDocPath(r.project, r.document))
       IN Step(r, IF res.ok THEN [r EXCEPT !.pc = "read"]
                  ELSE DetailCatch(r, res.message))
    /\ UNCHANGED <<fs, cwd, fsChanges, phase, exitCode>>

DetailRead(r) ==
    /\ r.tool = "getDetailedDocFor" /\ r.pc = "read"
    /\ LET res == FsReadFile(fs, DetailDocPath(r.project, r.document))
       IN Step(r, IF res.ok
                    THEN [r EXCEPT !.pc = "done", !.response = DetailSuccess(res.value)]
                  ELSE DetailCatch(r, res.message))
    /\ UNCHANGED <<fs, cwd, fsChanges, phase, exitCode>>

\* access of <root>/docs/<project>
DetailAccessDir(r) ==
    /\ r.tool = "getDetailedDocFor" /\ r.pc = "accessDir"
    /\ LET res == FsAccess(fs, DetailProjectDir(r.project))
       IN Step(r, IF res.ok THEN [r EXCEPT !.pc = "readdir"]
                  ELSE [r EXCEPT !.pc = "done", !.response = DetailNoProjectError(r)])
    /\ UNCHANGED <<fs, cwd, fsChanges, phase, exitCode>>

\* readdir of <root>/docs/<project>
DetailReaddir(r) ==
    /\ r.tool = "getDetailedDocFor" /\ r.pc = "readdir"
    /\ LET dir == DetailProjectDir(r.project)
           res == FsReaddir(fs, dir)
       IN Step(r, IF res.ok
                    THEN [r EXCEPT !.pc = "done", !.response = DetailListError(r, res.value),
                             !.present = NamesIn(fs, dir),
                             !.stderr = @ \o <<<<"Available documents in ">> \o r.project
                                          \o <<": ">> \o JsonStringify(res.value)>>]
                  ELSE [r EXCEPT !.pc = "done", !.response = DetailNoProjectError(r)])
    /\ UNCHANGED <<fs, cwd, fsChanges, phase, exitCode>>

(***************************************************************************)
(* The handlers run to their end in one file system, with nothing in        *)
(* between their awaits.                                                    *)
(***************************************************************************)
OverviewHandler(f, name) ==
    LET docPath == OverviewDocPath(name)
        checked == FsAccess(f, docPath)
        content == FsReadFile(f, docPath)
    IN IF checked.ok /\ content.ok THEN OverviewSuccess(content.value)
       ELSE [isError |-> TRUE,
             text |-> OverviewErrorText(name, IF ~checked.ok THEN checked.message
                                              ELSE content.message)]

DetailHandler(f, project, document) ==
    LET docPath == DetailDocPath(project, document)
        checked == FsAccess(f, docPath)
        content == FsReadFile(f, docPath)
        errorMessage == IF ~checked.ok THEN checked.message ELSE content.message
        projectDir == DetailProjectDir(project)
        files == FsReaddir(f, projectDir)
    IN IF checked.ok /\ content.ok THEN DetailSuccess(content.value)
       ELSE IF FsAccess(f, projectDir).ok /\ files.ok
              THEN [isError |-> TRUE,
                    text |-> DetailListErrorText(project, document, files.value,
                                                 errorMessage)]
       ELSE [isError |-> TRUE,
             text |-> DetailNoProjectErrorText(project, document, errorMessage)]

(***************************************************************************)
(* The transport and the environment.                                       *)
(***************************************************************************)
\* the SDK sends the handler's result (or its validation error) to the client
Reply(r) ==
    /\ r.pc \in {"done", "rejected"}
    /\ req' = req (-) SetToBag({r})
    /\ UNCHANGED <<fs, cwd, fsChanges, phase, exitCode>>

Unstable(r) == [r EXCEPT !.stable = FALSE]

RECURSIVE Copies(_, _)
Copies(rs, b) ==
    IF rs = {} THEN 0
    ELSE LET r == CHOOSE x \in rs : TRUE IN b[r] + Copies(rs \ {r}, b)

\* something other than the server creates, removes or changes one document
FsChange(p, n) ==
    /\ fsChanges < MaxFsChanges
    /\ n # fs[p]
    /\ WellFormedFs([fs EXCEPT ![p] = n])
    /\ fs' = [fs EXCEPT ![p] = n]
    /\ fsChanges' = fsChanges + 1
    /\ req' = [u \in {Unstable(r) : r \in Requests} |->
                  Copies({r \in Requests : Unstable(r) = u}, req)]
    /\ UNCHANGED <<cwd, phase, exitCode>>

\* main(): await server.connect(transport) settles; on success main() logs
\* and returns with the transport's listeners keeping the process alive, on
\* failure main()'s promise is rejected
Connect(ok) ==
    /\ phase = "connecting"
    /\ phase' = IF ok THEN "running" ELSE "failed"
    /\ UNCHANGED <<fs, cwd, fsChanges, req, exitCode>>

\* a faulty variant: the rejection is logged but the status is that of success
MainCatchExitsZero ==
    /\ phase = "failed"
    /\ phase' = "exited"
    /\ exitCode' = 0
    /\ UNCHANGED <<fs, cwd, fsChanges, req>>

\* main().catch(...): the rejection is logged and the process exits with 1
MainCatch ==
    /\ phase = "failed"
    /\ phase' = "exited"
    /\ exitCode' = 1
    /\ UNCHANGED <<fs, cwd, fsChanges, req>>

\* the client closes the transport: no further request arrives; invocations
\* in flight run to their end
TransportClose ==
    /\ phase = "running"
    /\ phase' = "closed"
    /\ UNCHANGED <<fs, cwd, fsChanges, req, exitCode>>

Next ==
    \/ \E ok \in BOOLEAN : Connect(ok)
    \/ MainCatch
    \/ TransportClose
    \/ \E a \in NameInputs : CallOverview(a)
    \/ \E r \in Requests : OverviewAccess(r)
    \/ \E r \in Requests : OverviewRead(r)
    \/ \E r \in Requests : OverviewListDocs(r)
    \/ \E r \in Requests : OverviewListSub(r)
    \/ \E a \in ProjectInputs, b \in DocumentInputs : CallDetail(a, b)
    \/ \E r \in Requests : DetailAccess(r)
    \/ \E r \in Requests : DetailRead(r)
    \/ \E r \in Requests : DetailAccessDir(r)
    \/ \E r \in Requests : DetailReaddir(r)
    \/ \E r \in Requests : Reply(r)
    \/ \E p \in {P_mcpOverview, P_mcpTool} : \E n \in SlotNodes(p) : FsChange(p, n)

Spec == Init /\ [][Next]_vars

\* the rejection handler of main()'s promise is a microtask of the event loop:
\* once queued it runs
SpecLive == Spec /\ WF_vars(MainCatch)

(***************************************************************************)
(* Properties.  A path of the specification, <root>/docs/<name>/overview.md, *)
(* is read as Node's path module reads it: normalized component by          *)
(* component, so that docs/zz/../mcp is docs/mcp.                           *)
(***************************************************************************)
IsOverview(r) == r.tool = "getOverviewDocFor"
IsDetail(r) == r.tool = "getDetailedDocFor"
Done(r) == r.pc = "done"

DocsPrefix == P_root \o <<"/", "docs", "/">>
RawOverviewPath(name) == Normalize(DocsPrefix \o name \o <<"/">> \o S_overview_md)
RawDetailPath(project, document) ==
    Normalize(DocsPrefix \o project \o <<"/">> \o document \o S_md)
RawProjectDir(project) == Normalize(P_root \o <<"/", "docs", "/">> \o project)

\* well-formed UTF-8, over the one- and two-byte forms
RECURSIVE IsUtf8(_)
IsUtf8(bytes) ==
    IF bytes = <<>> THEN TRUE
    ELSE IF bytes[1] < 128 THEN IsUtf8(Tail(bytes))
    ELSE /\ bytes[1] >= 194 /\ bytes[1] <= 223
         /\ Len(bytes) >= 2 /\ bytes[2] >= 128 /\ bytes[2] <= 191
         /\ IsUtf8(Tail(Tail(bytes)))

CharBytes(c) ==
    CASE c = "H" -> <<72>>
      [] c = "i" -> <<105>>
      [] c = "U+00E9" -> <<195, 169>>
      [] c = "U+FFFD" -> <<239, 191, 189>>

RECURSIVE Utf8Encode(_)
Utf8Encode(text) ==
    IF text = <<>> THEN <<>> ELSE CharBytes(Head(text)) \o Utf8Encode(Tail(text))

NodeOf(f, p) == NodeAt(f, Resolve(f, p).at)

\* p names a readable file that holds UTF-8 text
IsReadableText(f, p) ==
    /\ Resolve(f, p).err = ""
    /\ NodeOf(f, p).kind = "file"
    /\ NodeOf(f, p).readable
    /\ IsUtf8(NodeOf(f, p).bytes)

\* C1: when docs/<name>/overview.md exists and is readable (and the file
\* system did not change during the call), getOverviewDocFor(name) returns a
\* response without the error flag whose text, encoded as UTF-8, is the
\* file's bytes.
C1_OverviewVerbatim ==
    \A r \in Requests :
        (IsOverview(r) /\ Done(r) /\ r.stable /\ IsReadableText(fs, RawOverviewPath(r.name)))
        => /\ ~r.response.isError
           /\ Utf8Encode(r.response.text) = NodeOf(fs, RawOverviewPath(r.name)).bytes

C1_Witness ==
    \E r \in Requests :
        /\ IsOverview(r) /\ Done(r) /\ r.stable
        /\ IsReadableText(fs, RawOverviewPath(r.name))
        /\ NodeOf(fs, RawOverviewPath(r.name)).bytes = B_He
        /\ r.response.text = <<"H", "U+00E9">>

\* C2: when docs/<project>/<document>.md exists and is readable (and the file
\* system did not change during the call), getDetailedDocFor returns a
\* response without the error flag whose text, encoded as UTF-8, is the
\* file's bytes.
C2_DetailVerbatim ==
    \A r \in Requests :
        (IsDetail(r) /\ Done(r) /\ r.stable
           /\ IsReadableText(fs, RawDetailPath(r.project, r.document)))
        => /\ ~r.response.isError
           /\ Utf8Encode(r.response.text)
                = NodeOf(fs, RawDetailPath(r.project, r.document)).bytes

C2_Witness ==
    \E r \in Requests :
        /\ IsDetail(r) /\ Done(r) /\ r.stable
        /\ r.project = S_mcp /\ r.document = S_overview
        /\ IsReadableText(fs, RawDetailPath(r.project, r.document))
        /\ r.response.text = <<"H", "U+00E9">>

\* the awaits of each handler: a step of the handler is defined at each
AwaitPoints(tool) ==
    IF tool = "getOverviewDocFor" THEN {"access", "read", "listDocs", "listSub"}
    ELSE {"access", "read", "accessDir", "readdir"}

HasLine(r, token) == \E k \in 1..Len(r.stderr) : r.stderr[k][1] = token

\* C3: whatever the check, the read and the listing do, a handler is either
\* suspended at one of its awaits, where its next step is defined, or has
\* returned a response; it never ends in a rejection.  The response carries
\* isError exactly when the check or the read failed, also when the listing
\* failed.
C3_NeverThrows ==
    \A r \in Requests :
        /\ r.pc \in AwaitPoints(r.tool) \cup {"done", "rejected"}
        /\ Done(r) => /\ r.response.isError <=> r.errorMessage # <<>>
                      /\ r.response.isError => r.response.text # <<>>
        /\ HasLine(r, "Error listing directory: ") => Done(r) /\ r.response.isError

C3_Witness ==
    \E r \in Requests :
        /\ IsOverview(r) /\ Done(r) /\ r.response.isError
        /\ HasLine(r, "Error listing directory: ")

RECURSIVE Orderings(_)
Orderings(S) ==
    IF S = {} THEN {<<>>}
    ELSE UNION {{<<x>> \o o : o \in Orderings(S \ {x})} : x \in S}

AvailableToken == "\". \nAvailable documents: "

\* the text lists exactly the names of the set, in some order
Enumerates(text, names) ==
    \E o \in Orderings(names) :
        Contains(text, <<AvailableToken>> \o JoinWith(o, <<",", " ">>) \o <<". ">>)

IsDirectory(f, p) == Resolve(f, p).err = "" /\ NodeOf(f, p).kind = "dir"
Exists(f, p) == Resolve(f, p).err = ""

C5_AsClaimed ==
    \A r \in Requests :
        (IsDetail(r) /\ Done(r) /\ r.stable /\ ~Exists(fs, RawProjectDir(r.project)))
        => /\ r.response.isError
           /\ ~Contains(r.response.text, <<AvailableToken>>)

\* C6: when there is no directory docs/<name>/, getOverviewDocFor(name)
\* returns an error response whose text contains the requested name, whether
\* the listing succeeded or failed.
C6_ErrorNamesRequest ==
    \A r \in Requests :
        (IsOverview(r) /\ Done(r) /\ r.stable /\ ~IsDirectory(fs, RawProjectDir(r.name)))
        => /\ r.response.isError
           /\ Contains(r.response.text, r.name)

C6_Witness ==
    \E r \in Requests :
        /\ IsOverview(r) /\ Done(r) /\ r.stable
        /\ r.name = S_mcp
        /\ ~IsDirectory(fs, RawProjectDir(r.name))
        /\ HasLine(r, "Error listing directory: ")
        /\ Contains(r.response.text, r.name)

StartsWith(p, prefix) == Len(p) > Len(prefix) /\ SubSeq(p, 1, Len(prefix)) = prefix

\* the path an invocation checks and reads
PathUsed(r) ==
    IF IsOverview(r) THEN OverviewDocPath(r.name) ELSE DetailDocPath(r.project, r.document)

\* C7 as claimed: the path a handler has checked lies under <root>/docs/,
\* whatever name, project and document are.
C7_AsClaimed ==
    \A r \in Requests :
        r.pc \notin {"rejected", "access"} => StartsWith(PathUsed(r), DocsPrefix)

\* the failure of the check, or else of the read, of path p
FailureMessage(f, p) ==
    IF ~FsAccess(f, p).ok THEN FsAccess(f, p).message ELSE FsReadFile(f, p).message

\* what the two readdir calls of the catch block return in file system f
ListedNames(f, r) ==
    LET docsDir == PathJoin(<<cwd, S_docs>>)
        top == FsReaddir(f, docsDir)
        sub == FsReaddir(f, PathJoin(<<docsDir, r.name>>))
    IN IF ~top.ok THEN {}
       ELSE Range(top.value)
            \cup (IF Includes(top.value, r.name) /\ sub.ok THEN Range(sub.value) ELSE {})

\* C8 as claimed: when the overview cannot be read and the listing succeeds,
\* the error response embeds the listing: every listed name is in its text.
C8_AsClaimed ==
    \A r \in Requests :
        (IsOverview(r) /\ Done(r) /\ r.stable /\ r.response.isError
           /\ HasLine(r, "Files in docs directory: "))
        => \A n \in ListedNames(fs, r) : Contains(r.response.text, n)

\* C8, amended: the error response of getOverviewDocFor is the fixed sentence
\* with the requested name, followed by the message of the failed check or
\* read, and nothing else; it is the same whether the listing succeeded or
\* failed.  The listing, or its failure, is written to stderr only.
C8_ListingOnlyLogged ==
    \A r \in Requests :
        (IsOverview(r) /\ Done(r) /\ r.response.isError)
        => /\ r.response.text =
                <<"Error: Could not find overview document for \"">> \o r.name
                \o <<"\". ">> \o r.errorMessage
           /\ r.stable => r.errorMessage = FailureMessage(fs, RawOverviewPath(r.name))
           /\ HasLine(r, "Files in docs directory: ")
                \/ HasLine(r, "Error listing directory: ")

C8_Witness ==
    \E r \in Requests :
        /\ IsOverview(r) /\ Done(r) /\ r.stable /\ r.response.isError
        /\ HasLine(r, "Files in docs/")
        /\ S_tool \o S_md \in ListedNames(fs, r)
        /\ ~Contains(r.response.text, S_tool)

SameCall(r1, r2) ==
    /\ r1.tool = r2.tool /\ r1.name = r2.name
    /\ r1.project = r2.project /\ r1.document = r2.document

\* C9: two calls with the same tool and arguments, both answered with no
\* change of the file system since the earlier one was made, have the same
\* response, whatever else was in flight.
C9_Idempotent ==
    \A r1, r2 \in Requests :
        (Done(r1) /\ Done(r2) /\ r1.stable /\ r2.stable /\ SameCall(r1, r2))
        => r1.response = r2.response

C9_Witness ==
    \E r \in Requests :
        /\ Done(r) /\ r.stable /\ r.response.isError
        /\ CopiesIn(r, req) >= 2

\* C10 as claimed: no handler runs with an empty name, project or document.
C10_AsClaimed ==
    \A r \in Requests :
        r.pc # "rejected"
        => /\ IsOverview(r) => r.name # <<>>
           /\ IsDetail(r) => r.project # <<>> /\ r.document # <<>>

\* C11: when the connection made at startup fails, the process eventually
\* exits with a non-zero status.  When it succeeds the process serves until
\* the transport closes: it leaves the serving phase by no other step, it
\* never exits with a status of its own, and a request that ends in an error
\* response leaves the phase as it is.
C11_ExitOnlyAtStartup ==
    /\ (phase = "failed") ~> (phase = "exited" /\ exitCode # 0)
    /\ [](phase = "exited" <=> exitCode # 0)
    /\ [][/\ phase = "running" => phase' \in {"running", "closed"}
          /\ phase = "closed" => phase' = "closed"
          /\ phase' = "exited" => phase \in {"failed", "exited"}
          /\ req' # req => phase' = phase]_vars

\* the process is serving: one request has ended in an error response and
\* another has been accepted
C11_Witness ==
    /\ phase = "running" /\ exitCode = 0
    /\ \E r, o \in Requests :
          /\ Done(r) /\ r.response.isError
          /\ o.pc = "access"

\* the response of invocation r's call, made alone in file system f
Alone(f, r) ==
    IF IsOverview(r) THEN OverviewHandler(f, r.name)
    ELSE DetailHandler(f, r.project, r.document)

\* C12: with several invocations in flight and their steps interleaved in
\* any order, an invocation answered with no change of the file system since
\* its call has the response its call gets when run alone in that file
\* system.  No step of a handler changes the file system, and a step changes
\* one invocation and leaves every other as it was.
C12_SameAsAlone ==
    /\ [](\A r \in Requests : (Done(r) /\ r.stable) => r.response = Alone(fs, r))
    /\ [][fs' # fs => fsChanges' # fsChanges]_vars
    /\ [][fs' = fs => /\ BagCardinality(req (-) req') <= 1
                      /\ BagCardinality(req' (-) req) <= 1]_vars

\* two different calls in flight, one answered after its catch block ran,
\* the other suspended inside its own catch block
C12_Witness ==
    \E r, o \in Requests :
        /\ ~SameCall(r, o)
        /\ Done(r) /\ r.stable /\ r.response.isError
        /\ r.response = Alone(fs, r)
        /\ o.pc \in {"listDocs", "listSub", "accessDir", "readdir"}
        /\ o.errorMessage # r.errorMessage

\* the message is that of a failed check or read with the given errno
IsErrno(message, code) ==
    /\ message # <<>>
    /\ \E syscall \in {"access", "open"} :
          message[1] = ErrnoText(code) \o syscall \o " '"

\* the response is the 'Could not find document' text with its list
HasList(r) == IsDetail(r) /\ Done(r) /\ Contains(r.response.text, <<AvailableToken>>)

\* invocation n of the next state is invocation r one step further
StepOf(r, n) == SameCall(r, n) /\ n.pc # r.pc

\* C13: in getDetailedDocFor the read is attempted only after the check of
\* the same path succeeded, the project directory is looked at only after
\* the check or the read failed, and it is listed only after its own check
\* succeeded, each as a step of its own.  When the response carries the list
\* of available documents, the failure was that of a missing file and the
\* file system did not change since the call, then <document>.md is not in
\* the list.
C13_CheckReadList ==
    /\ [](\A r \in Requests :
             (HasList(r) /\ r.stable /\ IsErrno(r.errorMessage, "ENOENT"))
             => /\ (r.document \o S_md) \notin r.present
                /\ Enumerates(r.response.text, r.present))
    /\ [][fs' = fs =>
            \A n \in Requests' \ Requests :
                IsDetail(n) =>
                  /\ n.pc = "read" =>
                        \E r \in Requests :
                            /\ StepOf(r, n) /\ r.pc = "access"
                            /\ FsAccess(fs, DetailDocPath(r.project, r.document)).ok
                  /\ n.pc = "accessDir" =>
                        \E r \in Requests :
                            /\ StepOf(r, n)
                            /\ \/ /\ r.pc = "access"
                                  /\ ~FsAccess(fs, DetailDocPath(r.project, r.document)).ok
                               \/ /\ r.pc = "read"
                                  /\ ~FsReadFile(fs, DetailDocPath(r.project, r.document)).ok
                  /\ n.pc = "readdir" =>
                        \E r \in Requests :
                            /\ StepOf(r, n) /\ r.pc = "accessDir"
                            /\ FsAccess(fs, DetailProjectDir(r.project)).ok]_vars

\* both ways of listing the very document reported as not found: one
\* invocation found the file but could not read it; for the other the file
\* was created between its check and its listing
C13_Witness ==
    \E r, o \in Requests :
        /\ HasList(r) /\ r.stable /\ IsErrno(r.errorMessage, "EACCES")
        /\ (r.document \o S_md) \in r.present
        /\ Enumerates(r.response.text, r.present)
        /\ HasList(o) /\ ~o.stable /\ IsErrno(o.errorMessage, "ENOENT")
        /\ (o.document \o S_md) \in o.present
        /\ Enumerates(o.response.text, o.present)

====
